---- MODULE Spec2Model ----
(***************************************************************************)
(* clangd "AddUsing" tweak (clang-tools-extra/clangd/refactor/tweaks/      *)
(* AddUsing.cpp): prepare() validates the qualified reference under the    *)
(* cursor, apply() deletes the qualifier and inserts a using-declaration   *)
(* at the place chosen by findInsertionPoint().                            *)
(*                                                                         *)
(* One behaviour is one tweak instance run against one immutable snapshot: *)
(* Init draws the snapshot (selection `sel`, parsed file `ast`), Prepare   *)
(* runs AddUsing::prepare, Apply runs AddUsing::apply on an accepted       *)
(* selection.                                                              *)
(***************************************************************************)
EXTENDS Integers, Sequences, FiniteSets, TLC

VARIABLES sel, ast, pc, QualifierToRemove, Name, ip, result

vars == <<sel, ast, pc, QualifierToRemove, Name, ip, result>>

(***************************************************************************)
(* Bounds of the explored snapshots.                                       *)
(***************************************************************************)
MaxOff == 3        \* the qualifier starts at offset 2 .. MaxOff of the main file
MaxQualLen == 2    \* spelled length of the qualifier under the cursor
MaxUsings == 2     \* using-declarations in the translation unit
MaxDepth == 2      \* selection-tree nodes below the innermost non-type node

(***************************************************************************)
(* Source locations.  A file location has a file and an offset; a macro    *)
(* location (isMacroID) lives in an expansion FileID and expands at offset *)
(* `exp` of the main file.                                                 *)
(***************************************************************************)
MainFileID == "main"

Loc(f, o) == [file |-> f, off |-> o, macro |-> FALSE, exp |-> o]

MacroLoc(e) == [file |-> "expansion", off |-> 0, macro |-> TRUE, exp |-> e]

InvalidLoc == [file |-> "", off |-> 0, macro |-> FALSE, exp |-> 0]

isValid(l) == l # InvalidLoc

isMacroID(l) == l.macro

getFileID(l) == l.file

getExpansionLoc_Spelling(l) == l

getExpansionLoc(l) == IF l.macro THEN Loc(MainFileID, l.exp) ELSE l

isBeforeInTranslationUnit_Never(l, r) == FALSE

isBeforeInTranslationUnit(l, r) == l.off < r.off

(***************************************************************************)
(* Tokens of the token buffer.                                             *)
(***************************************************************************)
Tok(k, l) == [kind |-> k, loc |-> l]

endLocation_Begin(t) == t.loc

endLocation(t) == IF t.loc.macro THEN t.loc ELSE Loc(t.loc.file, t.loc.off + 1)

(***************************************************************************)
(* Nested name specifiers.  A qualifier is the sequence of its segments;   *)
(* its kind is the kind of the last segment.  Namespace "a2" is a second   *)
(* (reopening) declaration of namespace a, namespace "b" is a::b.          *)
(***************************************************************************)
Null == "null"

Seg(k, d, t) == [kind |-> k, decl |-> d, text |-> t]

GlobalSeg == Seg("Global", Null, "")
NsA == Seg("Namespace", "a", "a")
NsA2 == Seg("Namespace", "a2", "a")
NsB == Seg("Namespace", "b", "b")
AliasSeg == Seg("NamespaceAlias", Null, "al")
TypeSeg == Seg("TypeSpec", Null, "T")
DependentSeg == Seg("Identifier", Null, "U")

getCanonicalDecl(d) == IF d = "a2" THEN "a" ELSE d

hasQualifier(q) == Len(q) > 0

getAsNamespace(q) ==
  IF q[Len(q)].kind = "Namespace" THEN q[Len(q)].decl ELSE Null

RECURSIVE printQualifier(_)
printQualifier(q) ==
  IF q = <<>> THEN ""
  ELSE printQualifier(SubSeq(q, 1, Len(q) - 1)) \o q[Len(q)].text \o "::"

(***************************************************************************)
(* tooling::Replacement / tooling::Replacements                            *)
(***************************************************************************)
Replacement(f, o, n, t) == [file |-> f, off |-> o, len |-> n, text |-> t]

\* Replacements::add: a replacement in another file, or one that overlaps an
\* entry already present, is refused with an error; an insertion adjacent to
\* a deletion is accepted.
RAdd(R, r) ==
  IF \E e \in R : e.file # r.file
    THEN [ok |-> FALSE, R |-> R, msg |-> "wrong file path"]
  ELSE IF \E e \in R : r.off < e.off + e.len /\ e.off < r.off + r.len
    THEN [ok |-> FALSE, R |-> R, msg |-> "overlapping replacement"]
  ELSE [ok |-> TRUE, R |-> R \cup {r}, msg |-> ""]

(***************************************************************************)
(* UsingFinder: the using-declarations of the translation unit, in         *)
(* traversal order, that are written in the main file and whose            *)
(* declaration context encloses the selection's.                           *)
(***************************************************************************)
VisitUsingDecl(D) == getFileID(D.loc) = MainFileID /\ D.encloses

UsingFinder(usings) == SelectSeq(usings, VisitUsingDecl)

(***************************************************************************)
(* findInsertionPoint                                                      *)
(***************************************************************************)
InsertionPointData(l, s) ==
  [kind |-> "value", Loc |-> l, Suffix |-> s, msg |-> ""]

StringError(m) == [kind |-> "error", Loc |-> InvalidLoc, Suffix |-> "", msg |-> m]

Crash == [kind |-> "crash", Loc |-> InvalidLoc, Suffix |-> "", msg |-> ""]

NoInsertionPoint == [kind |-> "none", Loc |-> InvalidLoc, Suffix |-> "", msg |-> ""]

\* lines 125-129, for a using-declaration whose qualifier is a namespace
IsDuplicate(U, Q, N) ==
  /\ getCanonicalDecl(getAsNamespace(U.qualifier)) =
       getCanonicalDecl(getAsNamespace(Q))
  /\ U.name = N

\* The loop of lines 121-136, from element i on, LastUsingLoc being `last`.
\* The result is the set of ways the loop can end: "dup" (line 130), "end"
\* with the final LastUsingLoc, or "crash".  Line 125 calls getCanonicalDecl
\* on the result of getAsNamespace without a null check; for a qualifier that
\* is no namespace this is a null dereference, whose outcomes are a crash or
\* a comparison that yields either truth value.
RECURSIVE ScanUsings(_, _, _, _, _, _)
ScanUsings(Usings, i, last, Cursor, Q, N) ==
  IF i > Len(Usings) THEN {[kind |-> "end", last |-> last]}
  ELSE LET U == Usings[i] IN
    IF isBeforeInTranslationUnit(Cursor, U.loc)
      THEN {[kind |-> "end", last |-> last]}
    ELSE IF getAsNamespace(U.qualifier) = Null
      THEN {[kind |-> "crash", last |-> last]}
           \cup (IF U.name = N THEN {[kind |-> "dup", last |-> last]} ELSE {})
           \cup ScanUsings(Usings, i + 1, U.loc, Cursor, Q, N)
    ELSE IF IsDuplicate(U, Q, N)
      THEN {[kind |-> "dup", last |-> last]}
    ELSE ScanUsings(Usings, i + 1, U.loc, Cursor, Q, N)

AnchorPoint_Newline(LastUsingLoc) == InsertionPointData(LastUsingLoc, "\n")

\* lines 137-141
AnchorPoint(LastUsingLoc) == InsertionPointData(LastUsingLoc, "")

\* llvm::find_if(Toks, kind == l_brace): index of the first "{", 0 for end()
FindLBrace(Toks) ==
  IF \E k \in 1..Len(Toks) : Toks[k].kind = "l_brace"
    THEN CHOOSE k \in 1..Len(Toks) :
           /\ Toks[k].kind = "l_brace"
           /\ \A j \in 1..(k - 1) : Toks[j].kind # "l_brace"
    ELSE 0

NamespaceTier_FallThrough(NS) ==
  IF ~NS.isNamespaceDecl THEN [kind |-> "fallthrough"]
  ELSE LET k == FindLBrace(NS.toks) IN
    IF k = 0 \/ ~isValid(endLocation(NS.toks[k]))
      THEN [kind |-> "fallthrough"]
    ELSE IF ~isMacroID(endLocation(NS.toks[k]))
      THEN InsertionPointData(endLocation(NS.toks[k]), "\n")
    ELSE [kind |-> "fallthrough"]

\* lines 143-162: NS is getEnclosingNamespaceContext() of the selection
NamespaceTier(NS) ==
  IF ~NS.isNamespaceDecl THEN [kind |-> "fallthrough"]
  ELSE LET k == FindLBrace(NS.toks) IN
    IF k = 0 \/ ~isValid(endLocation(NS.toks[k]))
      THEN StringError("Namespace with no {")
    ELSE IF ~isMacroID(endLocation(NS.toks[k]))
      THEN InsertionPointData(endLocation(NS.toks[k]), "\n")
    ELSE [kind |-> "fallthrough"]

FileTopTier_OneNewline(TLDs) ==
  IF TLDs = <<>>
    THEN StringError("Cannot find place to insert \"using\"")
    ELSE InsertionPointData(getExpansionLoc(TLDs[1]), "\n")

\* lines 163-173
FileTopTier(TLDs) ==
  IF TLDs = <<>>
    THEN StringError("Cannot find place to insert \"using\"")
    ELSE InsertionPointData(getExpansionLoc(TLDs[1]), "\n\n")

\* lines 106-174: the set of possible returns (one, unless line 125
\* dereferences null)
findInsertionPoint(a, Q, N) ==
  LET Usings == UsingFinder(a.usings)
      ends == ScanUsings(Usings, 1, InvalidLoc, a.cursor, Q, N)
      After(e) ==
        IF e.kind = "crash" THEN Crash
        ELSE IF e.kind = "dup" THEN InsertionPointData(InvalidLoc, "")
        ELSE IF isValid(e.last) THEN AnchorPoint(e.last)
        ELSE LET ns == NamespaceTier(a.ns) IN
          IF ns.kind # "fallthrough" THEN ns ELSE FileTopTier(a.tlds)
  IN {After(e) : e \in ends}

(***************************************************************************)
(* AddUsing::prepare                                                       *)
(***************************************************************************)
IsTypeLoc(k) == k \in {"TypeLoc", "ElaboratedTypeLoc"}

\* The loop of lines 185-200 on the path from the selected node (index 1) to
\* the root (last index, the only node without Parent): the index it stops at.
RECURSIVE WalkUp(_, _)
WalkUp(path, i) ==
  IF i = Len(path) THEN i
  ELSE IF path[i] = "NestedNameSpecifierLoc" THEN WalkUp(path, i + 1)
  ELSE IF /\ IsTypeLoc(path[i])
          /\ path[i] # "ElaboratedTypeLoc"
          /\ (IsTypeLoc(path[i + 1]) \/ path[i + 1] = "NestedNameSpecifierLoc")
    THEN WalkUp(path, i + 1)
  ELSE i

MacroCheck_BeginOnly(s) == s.macroBody

\* lines 229-231
MacroCheck(s) == s.macroBody \/ ~s.sameFile

\* lines 176-236: the return value and the members it leaves behind.  The
\* tweak object is fresh, so a node that is neither a DeclRefExpr nor an
\* ElaboratedTypeLoc leaves QualifierToRemove and Name default-constructed.
prepare(s) ==
  IF s.path = <<>> THEN [ret |-> FALSE, Q |-> <<>>, N |-> ""]
  ELSE LET Node == s.path[WalkUp(s.path, 1)]
           found == Node \in {"DeclRefExpr", "ElaboratedTypeLoc"}
           Q == IF found THEN s.qualifier ELSE <<>>
           N == IF found THEN s.name ELSE ""
       IN IF ~hasQualifier(Q) \/ getAsNamespace(Q) = Null \/ N = ""
            THEN [ret |-> FALSE, Q |-> Q, N |-> N]
          ELSE IF MacroCheck(s)
            THEN [ret |-> FALSE, Q |-> Q, N |-> N]
          ELSE [ret |-> TRUE, Q |-> Q, N |-> N]

(***************************************************************************)
(* AddUsing::apply                                                         *)
(***************************************************************************)
NoResult == [kind |-> "none", R |-> {}, msg |-> ""]

Edits(R) == [kind |-> "edits", R |-> R, msg |-> ""]

Error(m) == [kind |-> "error", R |-> {}, msg |-> m]

Aborted(k) == [kind |-> k, R |-> {}, msg |-> ""]

\* lines 266-271
UsingText(Q, N, Suffix) == "using " \o printQualifier(Q) \o N \o ";" \o Suffix

\* lines 260-281, for one return `p` of findInsertionPoint.  The assert of
\* line 273 aborts a build with assertions and is skipped by an NDEBUG build.
ApplyInsertion(p, R, Q, N) ==
  IF p.kind = "crash" THEN {Aborted("crash")}
  ELSE IF p.kind = "error" THEN {Error(p.msg)}
  ELSE IF ~isValid(p.Loc) THEN {Edits(R)}
  ELSE LET add == RAdd(R, Replacement(getFileID(p.Loc), p.Loc.off, 0,
                                      UsingText(Q, N, p.Suffix)))
           cont == IF add.ok THEN Edits(add.R) ELSE Error(add.msg)
       IN IF getFileID(p.Loc) = MainFileID
            THEN {cont}
            ELSE {Aborted("assert"), cont}

\* lines 238-282: the possible pairs (return of findInsertionPoint, return
\* of apply)
apply(s, a, Q, N) ==
  IF ~s.spelledOk
    THEN {<<NoInsertionPoint,
            Error("Could not determine length of the qualifier")>>}
  ELSE LET add == RAdd({}, Replacement(MainFileID, a.qualStart, a.qualLen, ""))
       IN IF ~add.ok THEN {<<NoInsertionPoint, Error(add.msg)>>}
          ELSE UNION {{<<p, r>> : r \in ApplyInsertion(p, add.R, Q, N)} :
                        p \in findInsertionPoint(a, Q, N)}

(***************************************************************************)
(* Snapshots                                                               *)
(***************************************************************************)
InnerKinds ==
  {"NestedNameSpecifierLoc", "ElaboratedTypeLoc", "TypeLoc", "DeclRefExpr"}

\* selected node first, root (a declaration) last; <<>> is no common ancestor
Paths ==
  {<<>>} \cup
  UNION {{p \o <<"Other">> : p \in [1..n -> InnerKinds]} : n \in 0..MaxDepth}

Qualifiers ==
  { <<>>, <<GlobalSeg>>, <<NsA>>, <<NsA, NsB>>, <<GlobalSeg, NsA>>,
    <<AliasSeg>>, <<NsA, TypeSeg>>, <<DependentSeg>> }

Selections ==
  [path : Paths, qualifier : Qualifiers, name : {"", "f"},
   macroBody : BOOLEAN, sameFile : BOOLEAN, spelledOk : BOOLEAN]

Reference(q) ==
  [path |-> <<"DeclRefExpr", "Other">>, qualifier |-> q, name |-> "f",
   macroBody |-> FALSE, sameFile |-> TRUE, spelledOk |-> TRUE]

CoreSelections == {Reference(<<NsA>>), Reference(<<NsA, NsB>>)}

Using(l, e, q, n) == [loc |-> l, encloses |-> e, qualifier |-> q, name |-> n]

\* using-declarations that can sit at main-file offset o, and one in a header
UsingsAt(o) ==
  {Using(Loc(MainFileID, o), TRUE, q, "f") :
     q \in {<<NsA2>>, <<NsA, NsB>>, <<GlobalSeg>>}}
  \cup {Using(Loc(MainFileID, o), TRUE, <<NsA2>>, "g"),
        Using(Loc(MainFileID, o), FALSE, <<NsA2>>, "f"),
        Using(Loc("header", o), TRUE, <<NsA2>>, "f")}

\* the qualifier is spelled at qualStart .. qualStart+qualLen-1, the name
\* follows it; declarations and braces lie before the qualifier or after the
\* name
Geometries ==
  [qualStart : 2..MaxOff, qualLen : 1..MaxQualLen]

DeclOffsets(g) == (0..(g.qualStart - 1)) \cup {g.qualStart + g.qualLen + 1}

UsingLists(g) ==
  UNION {{us \in [1..n -> UNION {UsingsAt(o) : o \in DeclOffsets(g)}] :
            \A i \in 1..(n - 1) : us[i].loc.off < us[i + 1].loc.off} :
         n \in 0..MaxUsings}

TranslationUnit == [isNamespaceDecl |-> FALSE, toks |-> <<>>]

NamespaceDecl(toks) == [isNamespaceDecl |-> TRUE, toks |-> toks]

NamespaceToks(l) == <<Tok("kw_namespace", l), Tok("l_brace", l), Tok("r_brace", l)>>

\* getEnclosingNamespaceContext() of the selection: the translation unit, or
\* a namespace whose tokens are not in the token buffer, come from a macro,
\* are in an included header, or are in the main file before the qualifier
EnclosingNamespaces(g) ==
  {TranslationUnit, NamespaceDecl(<<>>),
   NamespaceDecl(NamespaceToks(MacroLoc(0))),
   NamespaceDecl(NamespaceToks(Loc("header", 1)))}
  \cup {NamespaceDecl(NamespaceToks(Loc(MainFileID, o))) :
          o \in 0..(g.qualStart - 2)}

\* getLocalTopLevelDecls(): begin locations; the first one starts at or
\* before the qualifier
TopLevelDeclLists(g) ==
  { <<>>, <<Loc(MainFileID, 0)>>,
    <<MacroLoc(0), Loc(MainFileID, g.qualStart + g.qualLen + 1)>>,
    <<Loc(MainFileID, g.qualStart)>> }

File(g, us, ns, tlds) ==
  [cursor |-> Loc(MainFileID, g.qualStart + g.qualLen),
   qualStart |-> g.qualStart, qualLen |-> g.qualLen,
   usings |-> us, ns |-> ns, tlds |-> tlds]

\* namespace a { namespace b { void f(); } } void g() { a::b::f(); }
\* 0         10 12          24 26                 42        53    59
ExampleFile ==
  [cursor |-> Loc(MainFileID, 59), qualStart |-> 53, qualLen |-> 6,
   usings |-> <<>>, ns |-> TranslationUnit,
   tlds |-> <<Loc(MainFileID, 0), Loc(MainFileID, 42)>>]

ExampleSelection == Reference(<<NsA, NsB>>)

CoreFiles == {ExampleFile}

(***************************************************************************)
(* The state machine                                                       *)
(***************************************************************************)
Init ==
  /\ \/ sel \in Selections /\ ast \in CoreFiles
     \/ /\ sel \in CoreSelections
        /\ \E g \in Geometries :
             \E us \in UsingLists(g), ns \in EnclosingNamespaces(g),
                tlds \in TopLevelDeclLists(g) :
               ast = File(g, us, ns, tlds)
  /\ pc = "start"
  /\ QualifierToRemove = <<>>
  /\ Name = ""
  /\ ip = NoInsertionPoint
  /\ result = NoResult

Prepare ==
  /\ pc = "start"
  /\ LET r == prepare(sel) IN
       /\ pc' = IF r.ret THEN "prepared" ELSE "rejected"
       /\ QualifierToRemove' = r.Q
       /\ Name' = r.N
  /\ UNCHANGED <<sel, ast, ip, result>>

Apply ==
  /\ pc = "prepared"
  /\ \E o \in apply(sel, ast, QualifierToRemove, Name) :
       /\ ip' = o[1]
       /\ result' = o[2]
  /\ pc' = "done"
  /\ UNCHANGED <<sel, ast, QualifierToRemove, Name>>

Next == Prepare \/ Apply

Spec == Init /\ [][Next]_vars

TypeOK ==
  /\ pc \in {"start", "prepared", "rejected", "done"}
  /\ result.kind \in {"none", "edits", "error", "crash", "assert"}
  /\ ip.kind \in {"none", "value", "error", "crash"}

(***************************************************************************)
(* Vocabulary of the properties                                            *)
(***************************************************************************)
Accepted == pc \in {"prepared", "done"}

\* apply ran and got as far as findInsertionPoint
Scanned == pc = "done" /\ sel.spelledOk

Collected == UsingFinder(ast.usings)

\* the collected using-declarations located before the cursor
Before == {i \in 1..Len(Collected) : Collected[i].loc.off < ast.cursor.off}

NamesNamespace(U) == U.qualifier[Len(U.qualifier)].kind = "Namespace"

\* a collected using-declaration before the cursor for the same canonical
\* namespace and the same name
HasDuplicate ==
  \E i \in Before :
    /\ NamesNamespace(Collected[i])
    /\ getCanonicalDecl(getAsNamespace(Collected[i].qualifier)) =
         getCanonicalDecl(getAsNamespace(QualifierToRemove))
    /\ Collected[i].name = Name

\* a collected using-declaration before the cursor whose qualifier is not a
\* namespace (a class, a namespace alias, the global scope)
NonNamespaceBefore == \E i \in Before : ~NamesNamespace(Collected[i])

LastBefore == Collected[CHOOSE i \in Before : \A j \in Before : j <= i]

Deletion == Replacement(MainFileID, ast.qualStart, ast.qualLen, "")

Insertion(off, suffix) ==
  Replacement(MainFileID, off, 0,
              "using " \o printQualifier(QualifierToRemove) \o Name \o ";" \o suffix)

HasBrace == \E k \in 1..Len(ast.ns.toks) : ast.ns.toks[k].kind = "l_brace"

Brace == ast.ns.toks[CHOOSE k \in 1..Len(ast.ns.toks) :
                       /\ ast.ns.toks[k].kind = "l_brace"
                       /\ \A j \in 1..(k - 1) : ast.ns.toks[j].kind # "l_brace"]

FileTopResult ==
  IF ast.tlds = <<>>
    THEN Error("Cannot find place to insert \"using\"")
    ELSE Edits({Deletion,
                Insertion(IF ast.tlds[1].macro THEN ast.tlds[1].exp
                          ELSE ast.tlds[1].off, "\n\n")})

(***************************************************************************)
(* C1.  Duplicate suppression: when a collected using-declaration before   *)
(* the cursor binds the same canonical namespace and the same name, apply  *)
(* returns exactly the deletion of the qualifier and no insertion.         *)
(* (Stated for the applies that reach the scan.)                           *)
(***************************************************************************)
C1_DuplicateSuppression ==
  (Scanned /\ HasDuplicate) => result = Edits({Deletion})

(***************************************************************************)
(* C2, as claimed.  With no duplicate and a collected using-declaration    *)
(* before the cursor, the alias is inserted after the last such            *)
(* declaration (past its start), with an empty suffix.  (Stated for lists  *)
(* whose qualifiers are all namespaces.)                                   *)
(***************************************************************************)
C2_InsertedAfterLastUsing ==
  (Scanned /\ ~HasDuplicate /\ Before # {} /\ ~NonNamespaceBefore)
    => /\ result.kind = "edits"
       /\ \E e \in result.R :
            e.len = 0 /\ e.off > LastBefore.loc.off /\ e.text = Insertion(0, "").text

(***************************************************************************)
(* C2, amended.  With no duplicate and a collected using-declaration       *)
(* before the cursor, findInsertionPoint never fails and never uses the    *)
(* namespace or file-top tier: the alias is inserted at the location of    *)
(* the `using` keyword of the last such declaration (immediately before    *)
(* it), with an empty suffix.  The only other outcomes are those of the    *)
(* null dereference of C10, when a scanned qualifier is not a namespace:   *)
(* a crash, or the qualifier deletion alone.                               *)
(***************************************************************************)
C2_InsertedAtLastUsing ==
  (Scanned /\ ~HasDuplicate /\ Before # {})
    => /\ ip.kind \in {"value", "crash"}
       /\ ip.kind = "value" => ip \in {AnchorPoint(LastBefore.loc),
                                      InsertionPointData(InvalidLoc, "")}
       /\ \/ result = Edits({Deletion, Insertion(LastBefore.loc.off, "")})
          \/ /\ NonNamespaceBefore
             /\ result \in {Aborted("crash"), Edits({Deletion})}

C2_Witness ==
  /\ Scanned /\ ~HasDuplicate /\ Before # {} /\ ~NonNamespaceBefore
  /\ Cardinality(Before) > 1
  /\ result = Edits({Deletion, Insertion(LastBefore.loc.off, "")})

(***************************************************************************)
(* C3.  With no collected using-declaration before the cursor and an       *)
(* enclosing namespace whose opening brace is found and is not a macro     *)
(* expansion, the insertion point is the location right after the brace    *)
(* with suffix "\n"; when that location is in the main file apply returns  *)
(* the deletion and that insertion.                                        *)
(***************************************************************************)
C3_NamespaceBrace ==
  (Scanned /\ Before = {} /\ ast.ns.isNamespaceDecl /\ HasBrace /\ ~Brace.loc.macro)
    => /\ ip = InsertionPointData(Loc(Brace.loc.file, Brace.loc.off + 1), "\n")
       /\ Brace.loc.file = MainFileID
            => result = Edits({Deletion, Insertion(Brace.loc.off + 1, "\n")})

C3_Witness ==
  /\ Scanned /\ Before = {} /\ ast.ns.isNamespaceDecl /\ HasBrace
  /\ ~Brace.loc.macro /\ Brace.loc.file = MainFileID
  /\ Len(Collected) > 0
  /\ result = Edits({Deletion, Insertion(Brace.loc.off + 1, "\n")})

(***************************************************************************)
(* C4, as claimed.  With no collected using-declaration before the cursor  *)
(* and an enclosing namespace whose opening brace cannot be located or is  *)
(* a macro expansion, findInsertionPoint falls through to the file-top     *)
(* tier.                                                                   *)
(***************************************************************************)
C4_RejectedBraceFallsThrough ==
  (Scanned /\ Before = {} /\ ast.ns.isNamespaceDecl
     /\ (~HasBrace \/ Brace.loc.macro))
    => result = FileTopResult

(***************************************************************************)
(* C4, amended.  A brace that is a macro expansion falls through to the    *)
(* file-top tier; a brace that cannot be located makes findInsertionPoint  *)
(* (and apply) fail with the error "Namespace with no {".                  *)
(***************************************************************************)
C4_MacroFallsThroughMissingFails ==
  (Scanned /\ Before = {} /\ ast.ns.isNamespaceDecl)
    => /\ (HasBrace /\ Brace.loc.macro) => result = FileTopResult
       /\ ~HasBrace => /\ ip = StringError("Namespace with no {")
                       /\ result = Error("Namespace with no {")

C4_Witness ==
  /\ Scanned /\ Before = {} /\ ast.ns.isNamespaceDecl /\ ~HasBrace
  /\ ast.tlds # <<>>
  /\ result = Error("Namespace with no {")

(***************************************************************************)
(* C5.  With no collected using-declaration before the cursor and no       *)
(* usable enclosing namespace (none, or one whose brace is a macro         *)
(* expansion), the alias is inserted at the expansion start of the first   *)
(* top-level declaration with suffix "\n\n"; with no top-level declaration *)
(* apply returns the error and no edits, not even the deletion.            *)
(***************************************************************************)
C5_FileTop ==
  (pc = "done" /\ Before = {}
     /\ (~ast.ns.isNamespaceDecl \/ (HasBrace /\ Brace.loc.macro)))
    => /\ sel.spelledOk => result = FileTopResult
       /\ ast.tlds = <<>> => (result.kind = "error" /\ result.R = {})

C5_Witness ==
  /\ Scanned /\ Before = {} /\ ~ast.ns.isNamespaceDecl
  /\ ast.tlds # <<>> /\ ast.tlds[1].macro
  /\ result = FileTopResult

(***************************************************************************)
(* C6.  Every edit of an apply that returns edits is in the main file, the *)
(* insertion location chosen by findInsertionPoint is never in another     *)
(* file, and the assertion of line 273 never fails.                        *)
(***************************************************************************)
C6_SingleFile ==
  pc = "done"
    => /\ result.kind # "assert"
       /\ \A e \in result.R : e.file = MainFileID
       /\ (ip.kind = "value" /\ isValid(ip.Loc)) => getFileID(ip.Loc) = MainFileID

(***************************************************************************)
(* C7.  Edits returned by apply are the deletion of the qualifier (empty   *)
(* text) and at most one zero-length insertion, which lies at or before    *)
(* the start of the deleted span.                                          *)
(***************************************************************************)
C7_NonOverlap ==
  result.kind = "edits"
    => /\ Deletion \in result.R
       /\ Cardinality(result.R) \in {1, 2}
       /\ \A e \in result.R \ {Deletion} :
            e.len = 0 /\ e.off <= ast.qualStart

C7_Witness ==
  /\ result.kind = "edits"
  /\ Cardinality(result.R) = 2
  /\ \E e \in result.R : e.len = 0 /\ e.off = ast.qualStart
  /\ \E i \in 1..Len(Collected) : Collected[i].loc.off > ast.cursor.off

(***************************************************************************)
(* C8.  prepare returns true exactly when the node the walk stops at is a  *)
(* DeclRefExpr or an ElaboratedTypeLoc, its qualifier has a segment and    *)
(* names a namespace, the name is not empty, the qualifier does not begin  *)
(* in a macro body and begins and ends in the same file; a rejection       *)
(* produces no error and no edit.                                          *)
(***************************************************************************)
Climbs(path, i) ==
  /\ i < Len(path)
  /\ \/ path[i] = "NestedNameSpecifierLoc"
     \/ /\ path[i] = "TypeLoc"
        /\ path[i + 1] \in {"TypeLoc", "ElaboratedTypeLoc", "NestedNameSpecifierLoc"}

ResolvedNode(path) ==
  path[CHOOSE i \in 1..Len(path) :
         ~Climbs(path, i) /\ \A j \in 1..(i - 1) : Climbs(path, j)]

C9_ExampleInsertsInNamespaceB ==
  (pc = "done" /\ sel = ExampleSelection /\ ast = ExampleFile)
    => result = Edits({Replacement(MainFileID, 53, 6, ""),
                       Replacement(MainFileID, 27, 0, "using a::b::f;\n")})

(***************************************************************************)
(* C9, amended.  g is declared at global scope, so the selection has no    *)
(* enclosing namespace: the qualifier a::b:: (offset 53, length 6) is      *)
(* deleted and "using a::b::f;" followed by two newlines is inserted at    *)
(* the start of the first top-level declaration (offset 0).                *)
(***************************************************************************)
C9_ExampleInsertsAtFileTop ==
  (pc = "done" /\ sel = ExampleSelection /\ ast = ExampleFile)
    => result = Edits({Replacement(MainFileID, 53, 6, ""),
                       Replacement(MainFileID, 0, 0, "using a::b::f;\n\n")})

C9_Witness ==
  /\ pc = "done" /\ sel = ExampleSelection /\ ast = ExampleFile
  /\ result.kind = "edits"

(***************************************************************************)
(* C10.  The scan is total: a collected using-declaration before the       *)
(* cursor whose qualifier is not a namespace is skipped as a non-duplicate *)
(* without a crash, and still serves as the insertion anchor.              *)
(***************************************************************************)
C10_ScanTotal ==
  (Scanned /\ ~HasDuplicate /\ NonNamespaceBefore)
    => result = Edits({Deletion, Insertion(LastBefore.loc.off, "")})

====
